---- MODULE Spec2Model ----
(***************************************************************************)
(* Sequence construction of RelativePerformerModel                         *)
(* (src/relative_performer/train.py).                                      *)
(*                                                                         *)
(* A tensor is a record [device, dtype, data]; data is a nested sequence   *)
(* (outermost axis first, 1-based, so python index i is TLA+ index i+1).   *)
(* Content scalars are symbolic records that name where the value comes    *)
(* from (which cell and feature of the input, or which component of the    *)
(* learned class_query); raw positions are the integers torch.arange       *)
(* produces; positional-embedding scalars are sin/cos terms, evaluated     *)
(* exactly where the value is known for every timescale (sin 0 = 0,        *)
(* cos 0 = 1) and kept symbolic elsewhere.                                 *)
(*                                                                         *)
(* Parameters of the module (class_query, the encoder's timescales, the    *)
(* linear layers) are assumed to live on the device and in the dtype of    *)
(* the tensors a method is called with: placing the model is the host      *)
(* training loop's job, not this file's.                                   *)
(***************************************************************************)
EXTENDS Integers, Sequences, FiniteSets

VARIABLES hparams, call, status, input, pos_input, embedding, positions,
          created, logits

vars == <<hparams, call, status, input, pos_input, embedding, positions,
          created, logits>>

---------------------------------------------------------------------------
(* Bounds of the model *)

MaxBatch == 2
MaxNx == 2
MaxNy == 2
MaxDim == 2
MaxScales == 2
MaxPosDims == 2

Devices == {"cpu", "cuda"}
DTypes == {"float32", "float64"}

(* torch.zeros(...) without device= / dtype= uses the process defaults *)
DefaultDevice == "cpu"
DefaultDType == "float32"

---------------------------------------------------------------------------
(* Tensors *)

Tensor(device, dtype, data) == [device |-> device, dtype |-> dtype, data |-> data]

NoTensor == Tensor("none", "none", <<>>)

BatchOf(t) == Len(t.data)

SeqLenOf(t) == Len(t.data[1])

WidthOf(t) == Len(t.data[1][1])

(* one scalar of a content embedding *)
CellScalar(b, x, y, c) == [kind |-> "cell", b |-> b, x |-> x, y |-> y, c |-> c]

QueryScalar(c) == [kind |-> "class_query", b |-> 0, x |-> 0, y |-> 0, c |-> c]

(* one scalar of a positional embedding *)
Const(v) == [fn |-> "const", p |-> v, band |-> 0]

SinOf(p, k) == IF p = 0 THEN Const(0) ELSE [fn |-> "sin", p |-> p, band |-> k]

CosOf(p, k) == IF p = 0 THEN Const(1) ELSE [fn |-> "cos", p |-> p, band |-> k]

(* self.class_query = nn.Parameter(torch.Tensor(dim)): shape [dim] *)
class_query(hp) == [c \in 1..hp.dim |-> QueryScalar(c)]

(* self.content_embedding = nn.Linear(in_features, dim), applied to
   x [batch, nx, ny, in_features]: one dim-wide vector per cell, computed
   from that cell's features alone; device and dtype follow x. *)
content_embedding(hp, x) ==
    Tensor(x.device, x.dtype,
           [b \in 1..Len(x.data) |->
             [i \in 1..Len(x.data[b]) |->
               [j \in 1..Len(x.data[b][i]) |->
                 [c \in 1..hp.dim |->
                    CellScalar(x.data[b][i][j].b, x.data[b][i][j].x,
                               x.data[b][i][j].y, c)]]]])

(* an input grid [batch, nx, ny, .]: every cell carries its own label, so
   any misplacement by a rearrangement is visible *)
Grid(batch, nx, ny, device, dtype) ==
    Tensor(device, dtype,
           [b \in 1..batch |-> [i \in 1..nx |-> [j \in 1..ny |->
              [b |-> b - 1, x |-> i - 1, y |-> j - 1]]]])

---------------------------------------------------------------------------
(* _flatten_to_sequence *)

(* torch.arange(0, n) *)
arange(n) == [i \in 1..n |-> i - 1]

(* torch.meshgrid(x_pos, y_pos), default 'ij' indexing: two [nx, ny] grids *)
meshgrid(x_pos, y_pos) ==
    << [i \in 1..Len(x_pos) |-> [j \in 1..Len(y_pos) |-> x_pos[i]]],
       [i \in 1..Len(x_pos) |-> [j \in 1..Len(y_pos) |-> y_pos[j]]] >>

(* torch.stack(grids, axis=-1) of equally shaped 2-d grids *)
stack(grids) ==
    [i \in 1..Len(grids[1]) |-> [j \in 1..Len(grids[1][1]) |->
        [d \in 1..Len(grids) |-> grids[d][i][j]]]]

RearrangeColumnMajor(g) ==
    LET nx == Len(g)
        ny == Len(g[1])
    IN  [k \in 1..(nx * ny) |-> g[((k - 1) % nx) + 1][((k - 1) \div nx) + 1]]

(* einops rearrange '... x y d -> ... (x y) d' on one [x, y, d] block:
   x is the slow axis of the merged one *)
rearrange_xy(g) ==
    LET nx == Len(g)
        ny == Len(g[1])
    IN  [k \in 1..(nx * ny) |-> g[((k - 1) \div ny) + 1][((k - 1) % ny) + 1]]

_flatten_to_sequence(inp) ==
    LET device == inp.device
        dtype == inp.dtype
        nx == Len(inp.data[1])
        ny == Len(inp.data[1][1])
        x_pos == arange(nx)
        y_pos == arange(ny)
        pos == stack(meshgrid(x_pos, y_pos))
    IN  [embedding |-> Tensor(device, dtype,
                              [b \in 1..Len(inp.data) |-> rearrange_xy(inp.data[b])]),
         positions |-> Tensor(device, dtype, << rearrange_xy(pos) >>),
         created |-> { [name |-> "x_pos", device |-> device, dtype |-> dtype,
                        ref_device |-> inp.device, ref_dtype |-> inp.dtype],
                       [name |-> "y_pos", device |-> device, dtype |-> dtype,
                        ref_device |-> inp.device, ref_dtype |-> inp.dtype] }]

---------------------------------------------------------------------------
(* _compute_positional_embeddings *)

(* The encoder constructed as LearnableSinusoidEncoding(pos_scales*2, ...):
   its first argument is the number of features it emits per coordinate,
   one (sin, cos) pair per timescale. *)
EncoderDim(hp) == hp.pos_scales * 2

EncoderBands(hp) == EncoderDim(hp) \div 2

(* the encoding of one coordinate p: [sin(p w_1), cos(p w_1), sin(p w_2), ...] *)
LearnableSinusoidEncoding(enc_dim, p) ==
    [i \in 1..enc_dim |->
        IF i % 2 = 1 THEN SinOf(p, (i + 1) \div 2) ELSE CosOf(p, i \div 2)]

(* einops rearrange '... p d -> ... (p d)' on one [p, d] block of width d *)
rearrange_pd(block, d) ==
    [k \in 1..(Len(block) * d) |-> block[((k - 1) \div d) + 1][((k - 1) % d) + 1]]

_compute_positional_embeddings(hp, pos) ==
    Tensor(pos.device, pos.dtype,
           [b \in 1..Len(pos.data) |->
             [n \in 1..Len(pos.data[b]) |->
                rearrange_pd([p \in 1..Len(pos.data[b][n]) |->
                                LearnableSinusoidEncoding(EncoderDim(hp),
                                                          pos.data[b][n][p])],
                             EncoderDim(hp))]])

---------------------------------------------------------------------------
(* _add_class_query *)

(* torch.cat([a, b], axis=1) of two data blocks with equal batch *)
cat(a, b) == [i \in 1..Len(a) |-> a[i] \o b[i]]

(* torch result type of two floating dtypes *)
promote_types(s, t) == IF "float64" \in {s, t} THEN "float64" ELSE "float32"

Ones(width) == [k \in 1..width |-> Const(1)]

(* torch.zeros(1, 1, width): data of the one row *)
zeros(width) == [k \in 1..width |-> Const(0)]

(* self.class_query[None, None, :].expand(bs, 1, 1): the view has shape
   [1, 1, dim]; expand keeps a non-singleton axis only at its own size, so
   the requested size 1 on the last axis is accepted only when dim = 1 *)
expand_class_query(hp, bs) ==
    IF hp.dim = 1
    THEN [ok |-> TRUE, data |-> [b \in 1..bs |-> << class_query(hp) >>]]
    ELSE [ok |-> FALSE, data |-> <<>>]

(* torch.cat accepts blocks that agree on every axis but the one joined *)
cat_shapes_agree(a, b) ==
    /\ Len(a) = Len(b)
    /\ Len(a[1][1]) = Len(b[1][1])

Raise(made) ==
    [status |-> "error", embedding |-> NoTensor, pos_embedding |-> NoTensor,
     created |-> made]

NoZeroPosition(pe, zero_row) == pe.data

ZeroPositionLast(pe, zero_row) == cat(pe.data, << << zero_row >> >>)

(* the data of torch.cat([torch.zeros(1, 1, pos_embedding_dim), pos_embedding], axis=1) *)
prepend_zero_position(pe, zero_row) == cat(<< << zero_row >> >>, pe.data)

(* The outcomes of _add_class_query(embedding, pos_embedding).  A cat of two
   dtypes either promotes or is refused, depending on the torch release. *)
_add_class_query(hp, emb, pe) ==
    LET bs == BatchOf(pe)
        pos_embedding_dim == WidthOf(pe)
        query == expand_class_query(hp, bs)
        zero_row == zeros(pos_embedding_dim)
        made == { [name |-> "zeros", device |-> DefaultDevice, dtype |-> DefaultDType,
                   ref_device |-> pe.device, ref_dtype |-> pe.dtype] }
        joined(dtype) ==
            [status |-> "ok",
             embedding |-> Tensor(emb.device, emb.dtype, cat(query.data, emb.data)),
             pos_embedding |-> Tensor(pe.device, dtype, prepend_zero_position(pe, zero_row)),
             created |-> made]
    IN  IF ~query.ok THEN { Raise({}) }
        ELSE IF ~cat_shapes_agree(query.data, emb.data) THEN { Raise({}) }
        ELSE IF ~cat_shapes_agree(<< << zero_row >> >>, pe.data) THEN { Raise(made) }
        ELSE IF pe.device # DefaultDevice THEN { Raise(made) }
        ELSE IF pe.dtype # DefaultDType
             THEN { Raise(made), joined(promote_types(DefaultDType, pe.dtype)) }
        ELSE { joined(pe.dtype) }

---------------------------------------------------------------------------
(* forward *)

(* self.performer(embedding, positions): one output per sequence element,
   aligned by index with the element it was computed for; positions of
   batch 1 are shared by every batch entry *)
performer(emb, pe) ==
    [b \in 1..BatchOf(emb) |->
      [i \in 1..SeqLenOf(emb) |->
         [attended |-> emb.data[b][i],
          at |-> pe.data[IF BatchOf(pe) = 1 THEN 1 ELSE b][i]]]]

(* self.output_layer = nn.Linear(dim, num_classes), applied per batch entry *)
output_layer(out) == [b \in 1..Len(out) |-> [linear_of |-> out[b]]]

forward(hp, x) ==
    LET emb0 == content_embedding(hp, x)
        flat == _flatten_to_sequence(emb0)
        pe == _compute_positional_embeddings(hp, flat.positions)
        attended == performer(flat.embedding, pe)
        out == [b \in 1..Len(attended) |-> attended[b][1]]
    IN  [embedding |-> flat.embedding, positions |-> pe, created |-> flat.created,
         logits |-> Tensor(x.device, x.dtype, output_layer(out))]

---------------------------------------------------------------------------
(* The state machine: one model object, and the frame of the method that is
   being called on it, shown at its return statement *)

NoHparams == [constructed |-> FALSE, dim |-> 0, pos_scales |-> 0, pos_dims |-> 0]

Init ==
    /\ hparams = NoHparams
    /\ call = "none"
    /\ status = "ok"
    /\ input = NoTensor
    /\ pos_input = NoTensor
    /\ embedding = NoTensor
    /\ positions = NoTensor
    /\ created = {}
    /\ logits = NoTensor

(* RelativePerformerModel.__init__: stores the hyperparameters and builds
   the submodules; no argument is examined (pos_dims defaults to 1, the
   training script passes 2) *)
Construct ==
    /\ ~hparams.constructed
    /\ call = "none"
    /\ \E dim \in 1..MaxDim, pos_scales \in 0..MaxScales, pos_dims \in 0..MaxPosDims :
          hparams' = [constructed |-> TRUE, dim |-> dim,
                      pos_scales |-> pos_scales, pos_dims |-> pos_dims]
    /\ call' = "__init__"
    /\ UNCHANGED <<status, input, pos_input, embedding, positions, created, logits>>

CallForward ==
    /\ hparams.constructed
    /\ call = "none"
    /\ \E batch \in 1..MaxBatch, nx \in 1..MaxNx, ny \in 1..MaxNy,
          device \in Devices, dtype \in DTypes :
          LET x == Grid(batch, nx, ny, device, dtype)
              r == forward(hparams, x)
          IN  /\ input' = x
              /\ embedding' = r.embedding
              /\ positions' = r.positions
              /\ created' = r.created
              /\ logits' = r.logits
    /\ call' = "forward"
    /\ status' = "ok"
    /\ pos_input' = NoTensor
    /\ UNCHANGED hparams

CallFlattenToSequence ==
    /\ hparams.constructed
    /\ call = "none"
    /\ \E batch \in 1..MaxBatch, nx \in 1..MaxNx, ny \in 1..MaxNy,
          device \in Devices, dtype \in DTypes :
          LET inp == content_embedding(hparams, Grid(batch, nx, ny, device, dtype))
              r == _flatten_to_sequence(inp)
          IN  /\ input' = inp
              /\ embedding' = r.embedding
              /\ positions' = r.positions
              /\ created' = r.created
    /\ call' = "_flatten_to_sequence"
    /\ status' = "ok"
    /\ pos_input' = NoTensor
    /\ logits' = NoTensor
    /\ UNCHANGED hparams

CallComputePositionalEmbeddings ==
    /\ hparams.constructed
    /\ call = "none"
    /\ \E nx \in 1..MaxNx, ny \in 1..MaxNy, device \in Devices, dtype \in DTypes :
          LET pos == _flatten_to_sequence(
                        content_embedding(hparams, Grid(1, nx, ny, device, dtype))).positions
          IN  /\ pos_input' = pos
              /\ positions' = _compute_positional_embeddings(hparams, pos)
    /\ call' = "_compute_positional_embeddings"
    /\ status' = "ok"
    /\ input' = NoTensor
    /\ embedding' = NoTensor
    /\ created' = {}
    /\ logits' = NoTensor
    /\ UNCHANGED hparams

(* pos_embedding repeated along the batch axis (a caller that has expanded it) *)
Repeat(t, batch) == Tensor(t.device, t.dtype, [b \in 1..batch |-> t.data[1]])

CallAddClassQuery ==
    /\ hparams.constructed
    /\ call = "none"
    /\ \E batch \in 1..MaxBatch, nx \in 1..MaxNx, ny \in 1..MaxNy,
          device \in Devices, dtype \in DTypes, expanded \in BOOLEAN :
          LET flat == _flatten_to_sequence(
                         content_embedding(hparams, Grid(batch, nx, ny, device, dtype)))
              pe1 == _compute_positional_embeddings(hparams, flat.positions)
              pe == IF expanded THEN Repeat(pe1, batch) ELSE pe1
          IN  \E r \in _add_class_query(hparams, flat.embedding, pe) :
                 /\ input' = flat.embedding
                 /\ pos_input' = pe
                 /\ status' = r.status
                 /\ embedding' = r.embedding
                 /\ positions' = r.pos_embedding
                 /\ created' = r.created
    /\ call' = "_add_class_query"
    /\ logits' = NoTensor
    /\ UNCHANGED hparams

(* the method returns (or its exception propagates): its locals are gone,
   the model object is as it was *)
Return ==
    /\ call # "none"
    /\ call' = "none"
    /\ status' = "ok"
    /\ input' = NoTensor
    /\ pos_input' = NoTensor
    /\ embedding' = NoTensor
    /\ positions' = NoTensor
    /\ created' = {}
    /\ logits' = NoTensor
    /\ UNCHANGED hparams

Next ==
    \/ Construct
    \/ Return
    \/ CallForward
    \/ CallFlattenToSequence
    \/ CallComputePositionalEmbeddings
    \/ CallAddClassQuery

Spec == Init /\ [][Next]_vars

---------------------------------------------------------------------------
(* Properties *)

NxOf(t) == Len(t.data[1])

NyOf(t) == Len(t.data[1][1])

(* the raw position (0, 0) of a cell, as a [1, 1, 2] position sequence *)
ZeroPosition(t) == Tensor(t.device, t.dtype, << << << 0, 0 >> >> >>)

(* the projector's output for the zero position *)
ProjectedZero(hp, t) == _compute_positional_embeddings(hp, ZeroPosition(t)).data[1][1]

(* a configuration the constructor is meant to accept *)
ValidConfig == hparams.pos_scales >= 1 /\ hparams.pos_dims >= 1

(* C1: in every call of forward both sequences handed to self.performer have
   length 1 + nx*ny, element 0 of both is the query token (class_query
   content, zero positional entry) and elements 1..nx*ny are the grid cells
   in row-major order. *)
C1_ForwardHandsQuerySequence ==
    (call = "forward" /\ ValidConfig) =>
        LET nx == NxOf(input)
            ny == NyOf(input)
            grid == content_embedding(hparams, input)
        IN  /\ SeqLenOf(embedding) = 1 + nx * ny
            /\ SeqLenOf(positions) = 1 + nx * ny
            /\ \A b \in 1..BatchOf(embedding) : embedding.data[b][1] = class_query(hparams)
            /\ \A b \in 1..BatchOf(positions) :
                  positions.data[b][1] = zeros(WidthOf(positions))
            /\ \A b \in 1..BatchOf(embedding), x \in 0..(nx - 1), y \in 0..(ny - 1) :
                  embedding.data[b][1 + x * ny + y + 1] = grid.data[b][x + 1][y + 1]

(* C2: the logits returned by forward are output_layer applied to the
   performer output of the prepended query token, never of a grid cell. *)
C2_LogitsFromQueryToken ==
    (call = "forward" /\ ValidConfig) =>
        \A b \in 1..BatchOf(logits) :
            logits.data[b].linear_of.attended = class_query(hparams)

(* C3: _flatten_to_sequence returns content [batch, nx*ny, d] and positions
   [1, nx*ny, 2]; position x*ny + y is (x, y), content x*ny + y of batch b is
   input[b, x, y]; the positions do not depend on batch. *)
C3_FlattenRowMajor ==
    call = "_flatten_to_sequence" =>
        LET nx == NxOf(input)
            ny == NyOf(input)
        IN  /\ BatchOf(embedding) = BatchOf(input)
            /\ BatchOf(positions) = 1
            /\ \A b \in 1..BatchOf(embedding) : Len(embedding.data[b]) = nx * ny
            /\ Len(positions.data[1]) = nx * ny
            /\ \A n \in 1..(nx * ny) : Len(positions.data[1][n]) = 2
            /\ \A b \in 1..BatchOf(input), x \in 0..(nx - 1), y \in 0..(ny - 1) :
                  /\ positions.data[1][x * ny + y + 1] = << x, y >>
                  /\ embedding.data[b][x * ny + y + 1] = input.data[b][x + 1][y + 1]
                  /\ Len(embedding.data[b][x * ny + y + 1]) = Len(input.data[b][x + 1][y + 1])
            /\ \A b2 \in 1..MaxBatch :
                  _flatten_to_sequence(content_embedding(hparams,
                      Grid(b2, nx, ny, input.device, input.dtype))).positions = positions

C3_Witness ==
    /\ call = "_flatten_to_sequence"
    /\ BatchOf(input) = 2
    /\ NxOf(input) = 2
    /\ NyOf(input) = 2
    /\ positions.data[1][3] = << 1, 0 >>
    /\ embedding.data[2][2] = input.data[2][1][2]

(* C4: _add_class_query returns content of shape [batch, 1 + n, dim] whose
   element 0 is the whole class_query vector for every batch entry; it does
   not fail. *)
C4_ClassQueryPrepended ==
    (call = "_add_class_query" /\ ValidConfig) =>
        /\ status = "ok"
        /\ BatchOf(embedding) = BatchOf(input)
        /\ SeqLenOf(embedding) = 1 + SeqLenOf(input)
        /\ \A b \in 1..BatchOf(embedding) :
              /\ Len(embedding.data[b][1]) = hparams.dim
              /\ embedding.data[b][1] = class_query(hparams)

SequencesMatch ==
    /\ SeqLenOf(embedding) = SeqLenOf(positions)
    /\ BatchOf(positions) \in {1, BatchOf(embedding)}

(* C5: after _flatten_to_sequence, and after _add_class_query has returned,
   content and positional sequence have equal length and compatible batch;
   _add_class_query adds exactly one element to each. *)
C5_SequencesAligned ==
    /\ call = "_flatten_to_sequence" => SequencesMatch
    /\ (call = "_add_class_query" /\ status = "ok") =>
          /\ SequencesMatch
          /\ SeqLenOf(embedding) = SeqLenOf(input) + 1
          /\ SeqLenOf(positions) = SeqLenOf(pos_input) + 1

C5_Witness ==
    /\ call = "_add_class_query"
    /\ status = "ok"
    /\ SeqLenOf(input) = SeqLenOf(pos_input)
    /\ SeqLenOf(embedding) >= 3
    /\ SeqLenOf(positions) = SeqLenOf(embedding)

(* C6: _add_class_query prepends the zero vector to the projected positional
   sequence: element 0 is all zeros, as wide as the projected embeddings,
   and elements 1..n are the input embeddings unchanged and in order, next
   to the content elements they came with. *)
C6_ZeroPositionPrepended ==
    (call = "_add_class_query" /\ status = "ok") =>
        /\ BatchOf(positions) = BatchOf(pos_input)
        /\ \A b \in 1..BatchOf(positions) :
              /\ Len(positions.data[b]) = Len(pos_input.data[b]) + 1
              /\ Len(positions.data[b][1]) = WidthOf(pos_input)
              /\ \A k \in 1..WidthOf(pos_input) : positions.data[b][1][k] = Const(0)
              /\ \A i \in 1..Len(pos_input.data[b]) :
                    positions.data[b][i + 1] = pos_input.data[b][i]
        /\ \A b \in 1..BatchOf(input), i \in 1..SeqLenOf(input) :
              embedding.data[b][i + 1] = input.data[b][i]

C6_Witness ==
    /\ call = "_add_class_query"
    /\ status = "ok"
    /\ WidthOf(pos_input) >= 4
    /\ SeqLenOf(pos_input) >= 2
    /\ positions.data[1][1] = zeros(WidthOf(pos_input))
    /\ positions.data[1][3] = pos_input.data[1][2]

(* C7, as stated: the positional embedding at sequence index 0 equals the
   projector's output for the zero position. *)
C7_QueryPositionIsProjectedZero ==
    (call = "_add_class_query" /\ status = "ok" /\ ValidConfig) =>
        \A b \in 1..BatchOf(positions) :
            positions.data[b][1] = ProjectedZero(hparams, pos_input)

(* C7, amended: the positional embedding _add_class_query places at index 0
   is all zeros; the projector's output for the zero position has the same
   width, 0 in every sin component and 1 in every cos component, so the two
   agree on the sin components and differ on every cos component. *)
C7_QueryPositionIsZeroVector ==
    (call = "_add_class_query" /\ status = "ok") =>
        LET proj == ProjectedZero(hparams, pos_input)
        IN  \A b \in 1..BatchOf(positions) :
               /\ Len(positions.data[b][1]) = Len(proj)
               /\ \A k \in 1..Len(proj) :
                     /\ positions.data[b][1][k] = Const(0)
                     /\ proj[k] = IF k % 2 = 1 THEN Const(0) ELSE Const(1)
                     /\ (positions.data[b][1][k] = proj[k]) <=> (k % 2 = 1)

C7_Witness ==
    /\ call = "_add_class_query"
    /\ status = "ok"
    /\ WidthOf(positions) >= 2
    /\ positions.data[1][1][2] = Const(0)
    /\ ProjectedZero(hparams, pos_input)[2] = Const(1)

(* C8: for two models that differ only in pos_scales and the same input,
   forward builds sequences of the same length, and the positional width is
   pos_dims * pos_scales * 2 with pos_scales bands in the encoder. *)
C8_WidthFromPosScales ==
    (call = "forward" /\ ValidConfig) =>
        /\ \A s \in 1..MaxScales :
              LET other == forward([hparams EXCEPT !.pos_scales = s], input)
              IN  /\ SeqLenOf(other.embedding) = SeqLenOf(embedding)
                  /\ SeqLenOf(other.positions) = SeqLenOf(positions)
        /\ EncoderBands(hparams) = hparams.pos_scales
        /\ WidthOf(positions) = hparams.pos_dims * hparams.pos_scales * 2

(* C9: no model with pos_scales <= 0 or pos_dims <= 0 is ever constructed. *)
C9_InvalidConfigRejected ==
    hparams.constructed => (hparams.pos_scales > 0 /\ hparams.pos_dims > 0)

(* C10: every tensor constructed anew during sequence building has the
   device and dtype of the input it is combined with. *)
C10_CreatedOnInputDevice ==
    ValidConfig => \A t \in created : t.device = t.ref_device /\ t.dtype = t.ref_dtype

====
